---- MODULE Spec2Model ----
(* A model of rendon/asserting: the reflective dispatcher Run, the stack  *)
(* walker CallerInfo, the name classifier isTest and the assertion        *)
(* predicates that report through testing.T.Fatalf.                       *)
(*                                                                        *)
(* Go strings whose characters matter (method and function names) are     *)
(* sequences of one-character strings; messages are sequences of pieces.  *)
EXTENDS Integers, Sequences, FiniteSets, TLC

VARIABLES
    \* ---- Run (dispatcher) ----
    methods,    \* the exported method names of the value, as reflect enumerates them
    pc,         \* position inside Run
    idx,        \* loop variable i of the loop Run is in
    be,         \* var be bool
    ba,         \* var ba bool
    calls,      \* names of the methods invoked so far, in order
    fatalAt,    \* Len(calls) at the moment a method called T.Fatalf, 0 if none did
    \* ---- CallerInfo and the predicates that use it ----
    above,      \* the frames above the failing predicate's frame
    pkgDir,     \* the directory the package's sources live in
    pred,       \* the predicate being run, with its arguments
    ciPc,       \* position inside predicate / CallerInfo
    ci,         \* loop variable i of CallerInfo
    callers,    \* callers []string
    ciEnd,      \* how the walk ended
    info,       \* the value CallerInfo returned
    msg,        \* the message handed to T.Fatalf
    \* ---- isTest applied to arbitrary inputs ----
    itName, itPrefix, itPc, itResult,
    \* ---- the repository's own suite (yatf_test.go) ----
    sPc,        \* position inside TestAll / runTests
    sPass,      \* which runTests call of TestAll is running (1 or 2)
    sIdx,       \* loop variable i of runTests
    sCalls,     \* test methods invoked so far
    failures,   \* messages handed to T.Fatalf by the suite
    log         \* record of direct predicate calls

runVars == <<methods, pc, idx, be, ba, calls, fatalAt>>
ciVars == <<above, pkgDir, pred, ciPc, ci, callers, ciEnd, info, msg>>
itVars == <<itName, itPrefix, itPc, itResult>>
suiteVars == <<sPc, sPass, sIdx, sCalls, failures, log>>
vars == <<runVars, ciVars, itVars, suiteVars>>

notRun == <<ciVars, itVars, suiteVars>>
notCaller == <<runVars, itVars, suiteVars>>
notIsTest == <<runVars, ciVars, suiteVars>>
notSuite == <<runVars, ciVars, itVars>>

-----------------------------------------------------------------------------
(* Bounds of the model *)

MaxMethods == 4
MaxAbove == 3
MaxNameLen == 5
MaxLog == 2

-----------------------------------------------------------------------------
(* Strings *)

Chars(s) ==
    CASE s = "Test" -> <<"T","e","s","t">>
      [] s = "Benchmark" -> <<"B","e","n","c","h","m","a","r","k">>
      [] s = "Example" -> <<"E","x","a","m","p","l","e">>
      [] s = "BeforeAll" -> <<"B","e","f","o","r","e","A","l","l">>
      [] s = "BeforeAllSetup" -> <<"B","e","f","o","r","e","A","l","l","S","e","t","u","p">>
      [] s = "BeforeEach" -> <<"B","e","f","o","r","e","E","a","c","h">>
      [] s = "BeforeEachCase" -> <<"B","e","f","o","r","e","E","a","c","h","C","a","s","e">>
      [] s = "Setup" -> <<"S","e","t","u","p">>
      [] s = "TestA" -> <<"T","e","s","t","A">>
      [] s = "TestB" -> <<"T","e","s","t","B">>
      [] s = "Testicular" -> <<"T","e","s","t","i","c","u","l","a","r">>
      [] s = "TestFoo" -> <<"T","e","s","t","F","o","o">>
      [] s = "TestHTTP" -> <<"T","e","s","t","H","T","T","P">>
      [] s = "TestLogin" -> <<"T","e","s","t","L","o","g","i","n">>
      [] s = "TestAll" -> <<"T","e","s","t","A","l","l">>
      [] s = "TestMock" -> <<"T","e","s","t","M","o","c","k">>
      [] s = "ExampleUse" -> <<"E","x","a","m","p","l","e","U","s","e">>
      [] s = "BenchmarkRun" -> <<"B","e","n","c","h","m","a","r","k","R","u","n">>
      [] s = "CallerInfo" -> <<"C","a","l","l","e","r","I","n","f","o">>
      [] s = "Assert" -> <<"A","s","s","e","r","t">>
      [] s = "AssertFalse" -> <<"A","s","s","e","r","t","F","a","l","s","e">>
      [] s = "AssertEqualInt" -> <<"A","s","s","e","r","t","E","q","u","a","l","I","n","t">>
      [] s = "Assertf" -> <<"A","s","s","e","r","t","f">>
      [] s = "AssertOK" -> <<"A","s","s","e","r","t","O","K">>
      [] s = "AssertCreated" -> <<"A","s","s","e","r","t","C","r","e","a","t","e","d">>
      [] s = "TestAddition" -> <<"T","e","s","t","A","d","d","i","t","i","o","n">>
      [] s = "TestDivision" -> <<"T","e","s","t","D","i","v","i","s","i","o","n">>
      [] s = "TestNonOKResponse" -> <<"T","e","s","t","N","o","n","O","K","R","e","s","p","o","n","s","e">>
      [] s = "TestOKResponse" -> <<"T","e","s","t","O","K","R","e","s","p","o","n","s","e">>
      [] s = "checkUser" -> <<"c","h","e","c","k","U","s","e","r">>
      [] s = "func1" -> <<"f","u","n","c","1">>
      [] s = "Called" -> <<"C","a","l","l","e","d">>
      [] s = "goexit" -> <<"g","o","e","x","i","t">>

\* strings.HasPrefix
HasPrefix(s, prefix) ==
    /\ Len(s) >= Len(prefix)
    /\ SubSeq(s, 1, Len(prefix)) = prefix

\* unicode.IsLower, on the characters the model uses
IsLower(r) ==
    r \in {"a","b","c","d","e","f","g","h","i","j","k","l","m",
           "n","o","p","q","r","s","t","u","v","w","x","y","z"}

\* A faulty variant of isTest: the lower-case test is dropped.
isTestAnyRune(name, prefix) == HasPrefix(name, prefix)

isTest(name, prefix) ==
    IF ~HasPrefix(name, prefix) THEN FALSE
    ELSE IF Len(name) = Len(prefix) THEN TRUE
    ELSE ~IsLower(name[Len(prefix) + 1])

-----------------------------------------------------------------------------
(* Run *)

\* The method names a test-case value may carry, in the order
\* reflect.Type.Method enumerates them (sorted by name).
MethodUniverse ==
    << Chars("BeforeAll"), Chars("BeforeAllSetup"), Chars("BeforeEach"),
       Chars("BeforeEachCase"), Chars("Setup"), Chars("TestA"), Chars("TestB"),
       Chars("Testicular") >>

Pick(S) == SelectSeq([k \in 1..Len(MethodUniverse) |-> k], LAMBDA k : k \in S)

MethodSets ==
    { [k \in 1..Len(Pick(S)) |-> MethodUniverse[Pick(S)[k]]] :
        S \in { T \in SUBSET (1..Len(MethodUniverse)) : Cardinality(T) <= MaxMethods } }

NumMethod == Len(methods)

\* reflect.Value.MethodByName: the index of the method, 0 for the zero Value
MethodByName(name) ==
    IF \E k \in 1..NumMethod : methods[k] = name
    THEN CHOOSE k \in 1..NumMethod : methods[k] = name
    ELSE 0

\* What a method does when called: return, or call T.Fatalf
Outcomes == {"return", "fatal"}

\* A faulty variant of AfterCall: T.Fatalf ends only the method that called it.
AfterCallResume(outcome, next) == next

\* T.Fatalf is FailNow: runtime.Goexit ends the goroutine Run is running on.
AfterCall(outcome, next) == IF outcome = "fatal" THEN "goexit" ELSE next

\* A faulty variant of SelectsTest: Run classifies names with isTest.
SelectsTestStrict(name) == isTest(name, Chars("Test"))

\* the test of the second loop
SelectsTest(name) == HasPrefix(name, Chars("Test"))

\* reflect.Value.Call on the method at index m, then `next`; the zero Value panics
Invoke(m, outcome, next) ==
    IF m = 0
    THEN /\ pc' = "panic"
         /\ UNCHANGED <<calls, fatalAt>>
    ELSE /\ calls' = Append(calls, methods[m])
         /\ fatalAt' = IF outcome = "fatal" THEN Len(calls) + 1 ELSE fatalAt
         /\ pc' = AfterCall(outcome, next)

RunInit ==
    /\ methods \in MethodSets
    /\ pc = "scan"
    /\ idx = 0
    /\ be = FALSE
    /\ ba = FALSE
    /\ calls = <<>>
    /\ fatalAt = 0

\* one iteration of the first loop
ScanMethod ==
    /\ pc = "scan"
    /\ idx < NumMethod
    /\ LET name == methods[idx + 1] IN
         IF HasPrefix(name, Chars("BeforeEach"))
         THEN be' = TRUE /\ ba' = ba
         ELSE IF HasPrefix(name, Chars("BeforeAll"))
              THEN ba' = TRUE /\ be' = be
              ELSE UNCHANGED <<be, ba>>
    /\ idx' = idx + 1
    /\ UNCHANGED <<methods, pc, calls, fatalAt, notRun>>

\* the first loop ends; if ba { value.MethodByName("BeforeAll").Call(nil) }
CallBeforeAll ==
    /\ pc = "scan"
    /\ idx = NumMethod
    /\ ba
    /\ \E outcome \in Outcomes :
         Invoke(MethodByName(Chars("BeforeAll")), outcome, "loop")
    /\ idx' = 0
    /\ UNCHANGED <<methods, be, ba, notRun>>

SkipBeforeAll ==
    /\ pc = "scan"
    /\ idx = NumMethod
    /\ ~ba
    /\ pc' = "loop"
    /\ idx' = 0
    /\ UNCHANGED <<methods, be, ba, calls, fatalAt, notRun>>

\* an iteration of the second loop on a method that is not selected
LoopSkip ==
    /\ pc = "loop"
    /\ idx < NumMethod
    /\ ~SelectsTest(methods[idx + 1])
    /\ idx' = idx + 1
    /\ UNCHANGED <<methods, pc, be, ba, calls, fatalAt, notRun>>

\* if be { value.MethodByName("BeforeEach").Call(nil) }
CallBeforeEach ==
    /\ pc = "loop"
    /\ idx < NumMethod
    /\ SelectsTest(methods[idx + 1])
    /\ be
    /\ \E outcome \in Outcomes :
         Invoke(MethodByName(Chars("BeforeEach")), outcome, "test")
    /\ UNCHANGED <<methods, idx, be, ba, notRun>>

\* finalMethod := value.MethodByName(method.Name); finalMethod.Call(nil)
CallTest ==
    /\ \/ pc = "test"
       \/ pc = "loop" /\ idx < NumMethod /\ SelectsTest(methods[idx + 1]) /\ ~be
    /\ \E outcome \in Outcomes :
         Invoke(MethodByName(methods[idx + 1]), outcome, "loop")
    /\ idx' = idx + 1
    /\ UNCHANGED <<methods, be, ba, notRun>>

\* the second loop ends and Run returns
RunReturn ==
    /\ pc = "loop"
    /\ idx = NumMethod
    /\ pc' = "returned"
    /\ UNCHANGED <<methods, idx, be, ba, calls, fatalAt, notRun>>

RunNext ==
    \/ ScanMethod
    \/ CallBeforeAll
    \/ SkipBeforeAll
    \/ LoopSkip
    \/ CallBeforeEach
    \/ CallTest
    \/ RunReturn

-----------------------------------------------------------------------------
(* CallerInfo and the predicates that call it *)

\* strconv's decimal formatting, as the %d verb applies it
DigitChar(d) == <<"0","1","2","3","4","5","6","7","8","9">>[d + 1]

RECURSIVE Digits(_)
Digits(n) ==
    IF n < 0 THEN <<"-">> \o Digits(-n)
    ELSE IF n < 10 THEN <<DigitChar(n)>>
    ELSE Digits(n \div 10) \o <<DigitChar(n % 10)>>

\* runtime.FuncForPC returned nil
NoFunc == <<>>

\* the file runtime.Caller reports for compiler-generated wrappers
Autogenerated == <<"<autogenerated>">>

\* A frame as runtime.Caller and runtime.FuncForPC report it: the file split
\* at "/", the line, and the function's name split at ".".
Frame(path, line, fn) == [path |-> path, line |-> line, fn |-> fn]

\* frames that may lie above the predicate's frame
FrameUniverse ==
    { Frame(<<"myapp", "user_test.go">>, 12, <<"myapp", "Suite", "TestLogin">>),
      Frame(<<"myapp", "helpers.go">>, 30, <<"myapp", "checkUser">>),
      Frame(<<"myapp", "user_test.go">>, 44, <<"myapp", "Testicular">>),
      Frame(<<"myapp", "example_test.go">>, 7, <<"myapp", "ExampleUse">>),
      Frame(<<"myapp", "bench_test.go">>, 9, <<"myapp", "BenchmarkRun">>),
      Frame(<<"mock", "mock.go">>, 50, <<"mock", "Mock", "Called">>),
      Frame(<<"mock", "mock_test.go">>, 60, <<"mock", "func1">>),
      Frame(<<"require", "require_test.go">>, 90, <<"require", "TestMock">>),
      Frame(Autogenerated, 1, <<"myapp", "Suite", "TestLogin">>),
      Frame(<<"runtime", "asm.s">>, 80, NoFunc),
      Frame(<<"runtime", "asm_amd64.s">>, 1650, <<"runtime", "goexit">>) }

RECURSIVE SeqsUpTo(_, _)
SeqsUpTo(S, n) ==
    IF n = 0 THEN {<<>>}
    ELSE LET shorter == SeqsUpTo(S, n - 1) IN
         shorter \cup { Append(q, x) : q \in { r \in shorter : Len(r) = n - 1 }, x \in S }

\* directories the package may be checked out in
PkgDirs == {"asserting", "assert"}

Pred(name, v, expected, actual) ==
    [name |-> name, v |-> v, expected |-> expected, actual |-> actual]

PredInputs ==
    { Pred("Assert", b, 0, 0) : b \in BOOLEAN }
    \cup { Pred("AssertFalse", b, 0, 0) : b \in BOOLEAN }
    \cup { Pred("AssertEqualInt", TRUE, 1, a) : a \in {1, 2} }

\* the condition under which the predicate reports
Unsatisfied(p) ==
    CASE p.name = "Assert" -> ~p.v
      [] p.name = "AssertFalse" -> p.v
      [] p.name = "AssertEqualInt" -> p.expected # p.actual

\* the frame of the predicate, at its call of CallerInfo
PredFrame(p) ==
    CASE p.name = "Assert" ->
           Frame(<<pkgDir, "asserting.go">>, 237, <<"asserting", "TestCase", "Assert">>)
      [] p.name = "AssertFalse" ->
           Frame(<<pkgDir, "asserting.go">>, 265, <<"asserting", "TestCase", "AssertFalse">>)
      [] p.name = "AssertEqualInt" ->
           Frame(<<pkgDir, "asserting.go">>, 373, <<"asserting", "(*TestCase)", "AssertEqualInt">>)

\* the frame of CallerInfo itself, which runtime.Caller(0) reports
OwnFrame == Frame(<<pkgDir, "asserting.go">>, 411, <<"asserting", "CallerInfo">>)

\* the stack runtime.Caller walks, innermost frame first
Stack == <<OwnFrame, PredFrame(pred)>> \o above

\* fmt.Sprintf("%s:%d", file, line)
Token(file, line) == <<file, ":">> \o Digits(line)

\* A faulty variant of Included: the test-file exception joined with && instead of ||.
IncludedAnd(dir, file) ==
    (dir # "assert" /\ dir # "mock" /\ dir # "require") /\ file = "mock_test.go"

\* the condition under which a frame's token is appended
Included(dir, file) ==
    (dir # "assert" /\ dir # "mock" /\ dir # "require") \/ file = "mock_test.go"

\* callers after the frame has been looked at
Accumulate(cs, f) ==
    LET dir == f.path[Len(f.path) - 1]
        file == f.path[Len(f.path)]
    IN IF Included(dir, file) THEN Append(cs, Token(file, f.line)) ELSE cs

\* the name with the package dropped
ShortName(f) == Chars(f.fn[Len(f.fn)])

EntryPoint(name) ==
    \/ isTest(name, Chars("Test"))
    \/ isTest(name, Chars("Benchmark"))
    \/ isTest(name, Chars("Example"))

\* A faulty variant of Result: the first token is returned.
ResultFirst(cs) == IF Len(cs) > 0 THEN cs[1] ELSE <<>>

\* the value returned after the loop
Result(cs) == IF Len(cs) > 0 THEN cs[Len(cs)] ELSE <<>>

\* "... [%s]" with the token
Bracketed(tok) == <<" ", "[">> \o tok \o <<"]">>

\* the message the predicate hands to T.Fatalf
Message(p, tok) ==
    CASE p.name = "Assert" -> <<"Expected true, got false">> \o Bracketed(tok)
      [] p.name = "AssertFalse" -> <<"Expected false, got true">> \o Bracketed(tok)
      [] p.name = "AssertEqualInt" ->
           <<"Expected ">> \o Digits(p.actual) \o <<" to equal ">>
             \o Digits(p.expected) \o Bracketed(tok)

CallerInit ==
    /\ above \in SeqsUpTo(FrameUniverse, MaxAbove) \ {<<>>}
    /\ pkgDir \in PkgDirs
    /\ pred \in PredInputs
    /\ ciPc = "call"
    /\ ci = 0
    /\ callers = <<>>
    /\ ciEnd = "none"
    /\ info = <<>>
    /\ msg = <<>>

\* the predicate's condition holds: it returns
PredicatePass ==
    /\ ciPc = "call"
    /\ ~Unsatisfied(pred)
    /\ ciPc' = "passed"
    /\ UNCHANGED <<above, pkgDir, pred, ci, callers, ciEnd, info, msg, notCaller>>

\* the predicate's condition fails: it calls CallerInfo
PredicateFail ==
    /\ ciPc = "call"
    /\ Unsatisfied(pred)
    /\ ciPc' = "walk"
    /\ UNCHANGED <<above, pkgDir, pred, ci, callers, ciEnd, info, msg, notCaller>>

\* runtime.Caller(i) reports !ok: return ""
WalkExhausted ==
    /\ ciPc = "walk"
    /\ ci >= Len(Stack)
    /\ info' = <<>>
    /\ ciEnd' = "exhausted"
    /\ ciPc' = "format"
    /\ UNCHANGED <<above, pkgDir, pred, ci, callers, msg, notCaller>>

\* file == "<autogenerated>": break
WalkAutogenerated ==
    /\ ciPc = "walk"
    /\ ci < Len(Stack)
    /\ Stack[ci + 1].path = Autogenerated
    /\ ciEnd' = "autogenerated"
    /\ ciPc' = "break"
    /\ UNCHANGED <<above, pkgDir, pred, ci, callers, info, msg, notCaller>>

\* the frame is looked at; f == nil: break
WalkNoFunc ==
    /\ ciPc = "walk"
    /\ ci < Len(Stack)
    /\ Stack[ci + 1].path # Autogenerated
    /\ Stack[ci + 1].fn = NoFunc
    /\ callers' = Accumulate(callers, Stack[ci + 1])
    /\ ciEnd' = "nofunc"
    /\ ciPc' = "break"
    /\ UNCHANGED <<above, pkgDir, pred, ci, info, msg, notCaller>>

\* the frame is looked at; its function looks like an entry point: break
WalkEntryPoint ==
    /\ ciPc = "walk"
    /\ ci < Len(Stack)
    /\ Stack[ci + 1].path # Autogenerated
    /\ Stack[ci + 1].fn # NoFunc
    /\ EntryPoint(ShortName(Stack[ci + 1]))
    /\ callers' = Accumulate(callers, Stack[ci + 1])
    /\ ciEnd' = "entry"
    /\ ciPc' = "break"
    /\ UNCHANGED <<above, pkgDir, pred, ci, info, msg, notCaller>>

\* the frame is looked at and the loop goes on
WalkOn ==
    /\ ciPc = "walk"
    /\ ci < Len(Stack)
    /\ Stack[ci + 1].path # Autogenerated
    /\ Stack[ci + 1].fn # NoFunc
    /\ ~EntryPoint(ShortName(Stack[ci + 1]))
    /\ callers' = Accumulate(callers, Stack[ci + 1])
    /\ ci' = ci + 1
    /\ UNCHANGED <<above, pkgDir, pred, ciPc, ciEnd, info, msg, notCaller>>

\* after the loop
WalkReturn ==
    /\ ciPc = "break"
    /\ info' = Result(callers)
    /\ ciPc' = "format"
    /\ UNCHANGED <<above, pkgDir, pred, ci, callers, ciEnd, msg, notCaller>>

\* t.T.Fatalf(format, ..., CallerInfo())
Fatalf ==
    /\ ciPc = "format"
    /\ msg' = Message(pred, info)
    /\ ciPc' = "failed"
    /\ UNCHANGED <<above, pkgDir, pred, ci, callers, ciEnd, info, notCaller>>

CallerNext ==
    \/ PredicatePass
    \/ PredicateFail
    \/ WalkExhausted
    \/ WalkAutogenerated
    \/ WalkNoFunc
    \/ WalkEntryPoint
    \/ WalkOn
    \/ WalkReturn
    \/ Fatalf

-----------------------------------------------------------------------------
(* isTest on arbitrary names *)

ItAlphabet == {"T", "e", "s", "t", "F"}

ItNames ==
    SeqsUpTo(ItAlphabet, MaxNameLen)
    \cup { Chars(n) : n \in {"Test", "TestFoo", "TestHTTP", "Testicular", "TestA",
                             "Benchmark", "BenchmarkRun", "Example", "ExampleUse",
                             "Setup", "Assert"} }

\* the prefixes CallerInfo passes
ItPrefixes == { Chars("Test"), Chars("Benchmark"), Chars("Example") }

IsTestInit ==
    /\ itName \in ItNames
    /\ itPrefix \in ItPrefixes
    /\ itPc = "call"
    /\ itResult = FALSE

ApplyIsTest ==
    /\ itPc = "call"
    /\ itResult' = isTest(itName, itPrefix)
    /\ itPc' = "done"
    /\ UNCHANGED <<itName, itPrefix, notIsTest>>

-----------------------------------------------------------------------------
(* The suite of yatf_test.go: runTests, the predicates and the test methods *)

StatusOK == 200
StatusCreated == 201

\* the method set of TestCase, as reflect enumerates it
SuiteMethods ==
    << "Assert", "AssertCreated", "AssertFalse", "AssertOK", "Assertf",
       "TestAddition", "TestDivision", "TestNonOKResponse", "TestOKResponse" >>

SCall(name, v, code) == [name |-> name, v |-> v, code |-> code]

SInputs ==
    { SCall(n, b, 0) : n \in {"Assert", "AssertFalse"}, b \in BOOLEAN }
    \cup { SCall(n, TRUE, c) : n \in {"AssertOK", "AssertCreated"},
                              c \in {StatusOK, StatusCreated, 404} }

\* A faulty variant of Fails: AssertCreated compares with the wrong status.
FailsSameStatus(c) ==
    CASE c.name = "Assert" -> ~c.v
      [] c.name = "AssertFalse" -> c.v
      [] c.name = "AssertOK" -> c.code # StatusOK
      [] c.name = "AssertCreated" -> c.code # StatusOK

\* the condition under which the predicate calls t.T.Fatalf
Fails(c) ==
    CASE c.name = "Assert" -> ~c.v
      [] c.name = "AssertFalse" -> c.v
      [] c.name = "AssertOK" -> c.code # StatusOK
      [] c.name = "AssertCreated" -> c.code # StatusCreated

\* the formatted message
FailureText(c) ==
    CASE c.name = "Assert" -> <<"Expected true, got false">>
      [] c.name = "AssertFalse" -> <<"Expected false, got true">>
      [] c.name = "AssertOK" ->
           <<"Expected ", "2", "0", "0", ", got ">> \o Digits(c.code)
      [] c.name = "AssertCreated" ->
           <<"Expected ", "2", "0", "1", ", got ">> \o Digits(c.code)

\* the predicate calls each test method makes, with the values Go computes
Body(m) ==
    CASE m = "TestAddition" ->
           << SCall("Assert", 2 = (1 * 4) \div 2, 0), SCall("Assert", 0 = -1 + 1, 0) >>
      [] m = "TestDivision" -> << SCall("AssertFalse", 4 = 10 \div 3, 0) >>
      [] m = "TestNonOKResponse" -> << SCall("AssertCreated", TRUE, 201) >>
      [] m = "TestOKResponse" -> << SCall("AssertOK", TRUE, 200) >>
      [] OTHER -> << >>

\* the first call of the body that fails, 0 if none does
FirstFailing(body) ==
    IF \E k \in 1..Len(body) : Fails(body[k])
    THEN CHOOSE k \in 1..Len(body) :
           Fails(body[k]) /\ \A j \in 1..(k - 1) : ~Fails(body[j])
    ELSE 0

SuiteInit ==
    /\ sPc = "run"
    /\ sPass = 1
    /\ sIdx = 0
    /\ sCalls = <<>>
    /\ failures = <<>>
    /\ log = <<>>

\* an iteration of runTests on a method without the prefix
SuiteSkip ==
    /\ sPc = "run"
    /\ sIdx < Len(SuiteMethods)
    /\ ~HasPrefix(Chars(SuiteMethods[sIdx + 1]), Chars("Test"))
    /\ sIdx' = sIdx + 1
    /\ UNCHANGED <<sPc, sPass, sCalls, failures, log, notSuite>>

\* an iteration of runTests that calls a test method
SuiteTest ==
    /\ sPc = "run"
    /\ sIdx < Len(SuiteMethods)
    /\ HasPrefix(Chars(SuiteMethods[sIdx + 1]), Chars("Test"))
    /\ sCalls' = Append(sCalls, SuiteMethods[sIdx + 1])
    /\ LET body == Body(SuiteMethods[sIdx + 1])
           k == FirstFailing(body)
       IN IF k = 0
          THEN /\ sIdx' = sIdx + 1
               /\ UNCHANGED <<sPc, failures>>
          ELSE /\ failures' = Append(failures, FailureText(body[k]))
               /\ sPc' = "goexit"
               /\ UNCHANGED sIdx
    /\ UNCHANGED <<sPass, log, notSuite>>

\* runTests(TestCase{T: t}) returns; runTests(&TestCase{T: t}) starts
SuiteSecondPass ==
    /\ sPc = "run"
    /\ sIdx = Len(SuiteMethods)
    /\ sPass = 1
    /\ sPass' = 2
    /\ sIdx' = 0
    /\ UNCHANGED <<sPc, sCalls, failures, log, notSuite>>

\* TestAll returns
SuiteReturn ==
    /\ sPc = "run"
    /\ sIdx = Len(SuiteMethods)
    /\ sPass = 2
    /\ sPc' = "returned"
    /\ UNCHANGED <<sPass, sIdx, sCalls, failures, log, notSuite>>

\* a predicate called on an arbitrary argument
CallPredicate ==
    /\ Len(log) < MaxLog
    /\ \E c \in SInputs :
         log' = Append(log, [call |-> c, failed |-> Fails(c),
                             text |-> IF Fails(c) THEN FailureText(c) ELSE <<>>])
    /\ UNCHANGED <<sPc, sPass, sIdx, sCalls, failures, notSuite>>

-----------------------------------------------------------------------------
(* Specifications *)

RunOff ==
    /\ methods = <<>> /\ pc = "off" /\ idx = 0 /\ be = FALSE /\ ba = FALSE
    /\ calls = <<>> /\ fatalAt = 0

CallerOff ==
    /\ above = <<>> /\ pkgDir = "asserting" /\ pred = Pred("Assert", TRUE, 0, 0)
    /\ ciPc = "off" /\ ci = 0 /\ callers = <<>> /\ ciEnd = "none"
    /\ info = <<>> /\ msg = <<>>

IsTestOff ==
    /\ itName = <<>> /\ itPrefix = <<>> /\ itPc = "off" /\ itResult = FALSE

SuiteOff ==
    /\ sPc = "off" /\ sPass = 1 /\ sIdx = 0 /\ sCalls = <<>>
    /\ failures = <<>> /\ log = <<>>

InitRun == RunInit /\ CallerOff /\ IsTestOff /\ SuiteOff
InitCaller == RunOff /\ CallerInit /\ IsTestOff /\ SuiteOff
InitIsTest == RunOff /\ CallerOff /\ IsTestInit /\ SuiteOff
InitSuite == RunOff /\ CallerOff /\ IsTestOff /\ SuiteInit

IsTestNext == ApplyIsTest

SuiteNext ==
    \/ SuiteSkip
    \/ SuiteTest
    \/ SuiteSecondPass
    \/ SuiteReturn
    \/ CallPredicate

SpecRun == InitRun /\ [][RunNext]_vars
SpecCaller == InitCaller /\ [][CallerNext]_vars
SpecIsTest == InitIsTest /\ [][IsTestNext]_vars
SpecSuite == InitSuite /\ [][SuiteNext]_vars

-----------------------------------------------------------------------------
(* Vocabulary of the properties, stated apart from the operators above *)

BeginsWith(name, p) ==
    /\ Len(name) >= Len(p)
    /\ \A k \in 1..Len(p) : name[k] = p[k]

Count(seq, x) == Cardinality({ k \in 1..Len(seq) : seq[k] = x })

TestNamed(name) == BeginsWith(name, <<"T","e","s","t">>)
BeforeAllNamed(name) == BeginsWith(name, <<"B","e","f","o","r","e","A","l","l">>)
BeforeEachNamed(name) == BeginsWith(name, <<"B","e","f","o","r","e","E","a","c","h">>)

MethodNames == { methods[k] : k \in 1..Len(methods) }

NoHooks == \A m \in MethodNames : ~BeforeAllNamed(m) /\ ~BeforeEachNamed(m)

\* Run has stopped of its own accord: it returned, or it panicked
RunStopped == pc \in {"returned", "panic"}

\* Run is over: it returned, it panicked, or its goroutine exited
RunOver == pc \in {"returned", "panic", "goexit"}

TestCalls == { k \in 1..Len(calls) : TestNamed(calls[k]) }

-----------------------------------------------------------------------------
(* Properties of Run, under SpecRun *)

C2_BeforeAllInvokedOnceFirst ==
    \A h \in MethodNames :
      ( /\ BeforeAllNamed(h)
        /\ \A m \in MethodNames : BeforeAllNamed(m) => m = h
        /\ pc \in {"loop", "test", "returned", "panic", "goexit"} )
      => /\ Len(calls) >= 1
         /\ calls[1] = h
         /\ Count(calls, h) = 1

\* C3: if the value has a method whose name begins with "BeforeEach" (only
\* one such, and no BeforeAll hook), every invocation of a "Test" method is
\* immediately preceded by an invocation of that hook, and when Run has
\* stopped of its own accord every "Test" method has been invoked and the
\* hook has been invoked as many times as test methods were.
C3_BeforeEachBeforeEveryTest ==
    \A h \in MethodNames :
      ( /\ BeforeEachNamed(h)
        /\ \A m \in MethodNames : BeforeEachNamed(m) => m = h
        /\ \A m \in MethodNames : ~BeforeAllNamed(m) )
      => /\ \A k \in TestCalls : k > 1 /\ calls[k - 1] = h
         /\ RunStopped =>
              /\ \A m \in MethodNames : TestNamed(m) => Count(calls, m) = 1
              /\ Count(calls, h) = Cardinality(TestCalls)

C9_RunNeverPanics == pc # "panic"

-----------------------------------------------------------------------------
(* Properties of CallerInfo, under SpecCaller *)

InternalDirs == {"assert", "mock", "require"}

HasSource(f) == f.path # <<"<autogenerated>">>

DirOf(f) == f.path[Len(f.path) - 1]
FileOf(f) == f.path[Len(f.path)]

InInternalDir(f) == HasSource(f) /\ DirOf(f) \in InternalDirs
InUserCode(f) == HasSource(f) /\ DirOf(f) \notin InternalDirs

TokenOf(f) == <<FileOf(f), ":">> \o Digits(f.line)

\* the function's short name is that of a test, benchmark or example
EntryPointNamed(f) ==
    /\ f.fn # <<>>
    /\ LET name == Chars(f.fn[Len(f.fn)]) IN
       \E p \in { <<"T","e","s","t">>,
                  <<"B","e","n","c","h","m","a","r","k">>,
                  <<"E","x","a","m","p","l","e">> } :
         /\ BeginsWith(name, p)
         /\ (Len(name) = Len(p) \/ ~IsLower(name[Len(p) + 1]))

\* the walk ends once this frame has been looked at
EndsWalk(f) == f.fn = <<>> \/ EntryPointNamed(f)

\* frames 1..j-1 lie in internal directories and frame j lies in user code
FirstUserFrame(j) ==
    /\ j \in 1..Len(Stack)
    /\ \A i \in 1..(j - 1) : InInternalDir(Stack[i])
    /\ InUserCode(Stack[j])

CallerInfoReturned == ciPc \in {"format", "failed"}

\* C5 as stated: CallerInfo returns the token of the first frame in user
\* code, whatever frames follow it. (Taken in the cases most favourable to
\* the statement: the package's own frames do not count as user code, no
\* internal frame ends the walk, and the walk does not run off the stack.)
C5_ReturnsFirstUserFrame ==
    (CallerInfoReturned /\ ciEnd # "exhausted") =>
      \A j \in 1..Len(Stack) :
        ( /\ FirstUserFrame(j)
          /\ DirOf(Stack[j]) # pkgDir
          /\ \A i \in 1..(j - 1) : ~EndsWalk(Stack[i]) )
        => info = TokenOf(Stack[j])

\* C5 as amended: CallerInfo returns the token of the first frame in user
\* code when the walk ends at that frame (its function is an entry point or
\* cannot be resolved) and at none of the internal frames before it.
C5_ReturnsFirstUserFrameWhenWalkEndsThere ==
    CallerInfoReturned =>
      \A j \in 1..Len(Stack) :
        ( /\ FirstUserFrame(j)
          /\ EndsWalk(Stack[j])
          /\ \A i \in 1..(j - 1) : ~EndsWalk(Stack[i]) )
        => info = TokenOf(Stack[j])

C5_Witness ==
    /\ ciPc = "failed"
    /\ FirstUserFrame(4)
    /\ EntryPointNamed(Stack[4])
    /\ FileOf(Stack[3]) = "mock_test.go"
    /\ Len(Stack) = 5
    /\ info = <<"user_test.go", ":", "1", "2">>

\* the frames CallerInfo looked at before it stopped
Looked == IF ciEnd \in {"entry", "nofunc"} THEN ci + 1 ELSE ci

LastOrEmpty(cs) == IF cs = <<>> THEN <<>> ELSE cs[Len(cs)]

\* C6 as stated: however the walk ends, CallerInfo returns the last token
\* accumulated, and the empty token only when none was accumulated.
C6_ReturnsLastAccumulated ==
    CallerInfoReturned => info = LastOrEmpty(callers)

\* C6 as amended: when the walk ends at a break (entry point reached,
\* "<autogenerated>" file, unresolvable function) CallerInfo returns the last
\* token accumulated, and the empty token only when none was accumulated,
\* which is so exactly when every frame looked at lies in an internal
\* directory and is not mock_test.go; when the stack is exhausted it returns
\* the empty token whatever was accumulated.
C6_ReturnsLastUnlessExhausted ==
    CallerInfoReturned =>
      /\ ciEnd \in {"entry", "autogenerated", "nofunc", "exhausted"}
      /\ ciEnd = "exhausted" => info = <<>>
      /\ ciEnd # "exhausted" =>
           /\ info = LastOrEmpty(callers)
           /\ info = <<>> <=>
                \A i \in 1..Looked :
                  InInternalDir(Stack[i]) /\ FileOf(Stack[i]) # "mock_test.go"

C6_Witness ==
    /\ ciPc = "failed"
    /\ ciEnd = "entry"
    /\ Len(callers) >= 3
    /\ info = callers[Len(callers)]
    /\ info # callers[1]

\* C8: when CallerInfo returned the empty token, the message handed to
\* T.Fatalf holds no bracket.
C8_EmptyTokenOmitsBrackets ==
    (ciPc = "failed" /\ info = <<>>) =>
      \A k \in 1..Len(msg) : msg[k] \notin {"[", "]"}

-----------------------------------------------------------------------------
(* Property of isTest, under SpecIsTest *)

\* C7: isTest(name, prefix) is true exactly when name starts with prefix and
\* either equals it or continues with a character that is not a lower-case
\* letter; with prefix "Test" it accepts Test, TestFoo and TestHTTP and
\* rejects Testicular and every name that does not start with "Test".
C7_IsTestClassifies ==
    itPc = "done" =>
      /\ itResult <=>
           /\ BeginsWith(itName, itPrefix)
           /\ \/ itName = itPrefix
              \/ ~IsLower(itName[Len(itPrefix) + 1])
      /\ itPrefix = <<"T","e","s","t">> =>
           /\ itName \in { <<"T","e","s","t">>, <<"T","e","s","t","F","o","o">>,
                           <<"T","e","s","t","H","T","T","P">> } => itResult
           /\ itName = <<"T","e","s","t","i","c","u","l","a","r">> => ~itResult
           /\ ~TestNamed(itName) => ~itResult

C7_Witness ==
    /\ itPc = "done"
    /\ itPrefix = <<"T","e","s","t">>
    /\ itName = <<"T","e","s","t","i","c","u","l","a","r">>
    /\ itResult = FALSE

-----------------------------------------------------------------------------
(* Property of the predicates and the suite, under SpecSuite *)

Contains(s, sub) ==
    \E i \in 1..(Len(s) - Len(sub) + 1) : SubSeq(s, i, i + Len(sub) - 1) = sub

ConditionUnmet(c) ==
    \/ c.name = "Assert" /\ c.v = FALSE
    \/ c.name = "AssertFalse" /\ c.v = TRUE
    \/ c.name = "AssertOK" /\ c.code # 200
    \/ c.name = "AssertCreated" /\ c.code # 201

SuiteTests == {"TestAddition", "TestDivision", "TestNonOKResponse", "TestOKResponse"}

\* C10: a predicate reports a failure exactly when its condition is unmet;
\* the suite's four test methods, run by both runTests calls of TestAll,
\* produce no failure; AssertCreated(200) fails with a message that holds
\* both "201" and "200".
C10_PredicatesFailIffUnmet ==
    /\ \A k \in 1..Len(log) :
         /\ log[k].failed <=> ConditionUnmet(log[k].call)
         /\ log[k].failed <=> log[k].text # <<>>
         /\ (log[k].call.name = "AssertCreated" /\ log[k].call.code = 200) =>
              /\ log[k].failed
              /\ Contains(log[k].text, <<"2", "0", "1">>)
              /\ Contains(log[k].text, <<"2", "0", "0">>)
    /\ failures = <<>>
    /\ sPc # "goexit"
    /\ \A k \in 1..Len(sCalls) : sCalls[k] \in SuiteTests
    /\ sPc = "returned" => \A t \in SuiteTests : Count(sCalls, t) = 2

C10_Witness ==
    /\ sPc = "returned"
    /\ failures = <<>>
    /\ Len(sCalls) = 8
    /\ \E k \in 1..Len(log) :
         /\ log[k].call.name = "AssertCreated"
         /\ log[k].call.code = 200
         /\ log[k].failed

====
